---- MODULE Spec2Model ----
(***************************************************************************)
(* Protocol core of mcp_k8s_server: start-up registration, the request     *)
(* handlers of the low-level server (src/src) and of the FastMCP server    *)
(* (src/mcp_k8s_server), and the read-dispatch-write loop that drives      *)
(* them over one connection.                                               *)
(*                                                                         *)
(* A string of the program is a sequence of letters.  A letter is either   *)
(* "/" or a run of characters that holds no "/" (such as "nodes").  A      *)
(* scheme prefix ("kubernetes://") is one letter at the head of a URI.     *)
(***************************************************************************)
EXTENDS Integers, Sequences, FiniteSets, TLC

\* ------------------------------------------------------------------ bounds
MaxRequests == 2     \* requests received on one connection
MaxSegments == 4     \* path segments of a URI a client sends
MaxReplicas == 2     \* largest replica count of a deployment
MaxClients == 2      \* clients that connect to the socket transport

\* ----------------------------------------------------------------- strings
None == <<"<None>">>            \* Python None, distinct from every string
Slash == "/"
Str(a) == <<a>>                 \* the one-letter string a
EmptyStr == <<>>

KUBERNETES_SCHEME == "kubernetes://"
K8S_SCHEME == "k8s://"

RECURSIVE LStrip(_)
LStrip(s) == IF s # <<>> /\ Head(s) = Slash THEN LStrip(Tail(s)) ELSE s

RECURSIVE RStrip(_)
RStrip(s) ==
    IF s # <<>> /\ s[Len(s)] = Slash THEN RStrip(SubSeq(s, 1, Len(s) - 1)) ELSE s

\* str.strip("/")
Strip(s) == RStrip(LStrip(s))

\* str.split("/"): the segments between the slashes; "" splits into [""]
RECURSIVE SplitFrom(_, _)
SplitFrom(s, cur) ==
    IF s = <<>> THEN <<cur>>
    ELSE IF Head(s) = Slash THEN <<cur>> \o SplitFrom(Tail(s), <<>>)
    ELSE SplitFrom(Tail(s), Append(cur, Head(s)))

Split(s) == SplitFrom(s, <<>>)

\* str.lower() on the letters of the model; only "ALL" has upper case
Lower(s) == [i \in 1..Len(s) |-> IF s[i] = "ALL" THEN "all" ELSE s[i]]

StartsWith(s, prefix) == Len(s) >= 1 /\ s[1] = prefix

\* ------------------------------------------------------ ResourceUriParser
ParseError == [ok |-> FALSE, resource_type |-> None, namespace |-> None, name |-> None]
Parsed(t, ns, n) == [ok |-> TRUE, resource_type |-> t, namespace |-> ns, name |-> n]

\* parse_resource_uri without path.strip("/")
ParseResourceUriNoStrip(uri) ==
    IF ~StartsWith(uri, KUBERNETES_SCHEME) THEN ParseError
    ELSE LET parts == Split(Tail(uri))
         IN  IF parts[1] = EmptyStr THEN ParseError
             ELSE IF Len(parts) = 1 THEN Parsed(parts[1], None, None)
             ELSE IF Len(parts) = 2 THEN
                  IF Lower(parts[2]) = Str("all")
                  THEN Parsed(parts[1], None, None)
                  ELSE Parsed(parts[1], parts[2], None)
             ELSE IF Len(parts) = 3 THEN Parsed(parts[1], parts[2], parts[3])
             ELSE ParseError

\* parse_resource_uri without the "all" alias
ParseResourceUriNoAlias(uri) ==
    IF ~StartsWith(uri, KUBERNETES_SCHEME) THEN ParseError
    ELSE LET parts == Split(Strip(Tail(uri)))
         IN  IF parts[1] = EmptyStr THEN ParseError
             ELSE IF Len(parts) = 1 THEN Parsed(parts[1], None, None)
             ELSE IF Len(parts) = 2 THEN Parsed(parts[1], parts[2], None)
             ELSE IF Len(parts) = 3 THEN Parsed(parts[1], parts[2], parts[3])
             ELSE ParseError

ParseResourceUri(uri) ==
    IF ~StartsWith(uri, KUBERNETES_SCHEME) THEN ParseError
    ELSE LET path == Tail(uri)
             parts == Split(Strip(path))
         IN  IF parts[1] = EmptyStr THEN ParseError
             ELSE IF Len(parts) = 1 THEN Parsed(parts[1], None, None)
             ELSE IF Len(parts) = 2 THEN
                  IF Lower(parts[2]) = Str("all")
                  THEN Parsed(parts[1], None, None)
                  ELSE Parsed(parts[1], parts[2], None)
             ELSE IF Len(parts) = 3 THEN Parsed(parts[1], parts[2], parts[3])
             ELSE ParseError

\* build_resource_uri that leaves the name out
BuildResourceUriNoName(resource_type, namespace, name) ==
    IF namespace = None THEN <<KUBERNETES_SCHEME>> \o resource_type
    ELSE <<KUBERNETES_SCHEME>> \o resource_type \o <<Slash>> \o namespace

\* build_resource_uri: the components joined by "/", as they are
BuildResourceUri(resource_type, namespace, name) ==
    IF namespace = None THEN <<KUBERNETES_SCHEME>> \o resource_type
    ELSE IF name = None THEN <<KUBERNETES_SCHEME>> \o resource_type \o <<Slash>> \o namespace
    ELSE <<KUBERNETES_SCHEME>> \o resource_type \o <<Slash>> \o namespace \o <<Slash>> \o name

\* ------------------------------------------------------------ JSON values
\* A tool argument: its JSON type, its text (strings, arrays) and its number.
Absent == [t |-> "absent", s |-> "", n |-> 0]         \* arguments.get(...) is None
S(x) == [t |-> "string", s |-> x, n |-> 0]
I(k) == [t |-> "integer", s |-> "", n |-> k]
B(b) == [t |-> "boolean", s |-> "", n |-> IF b THEN 1 ELSE 0]
\* an array holding the one item x (a string when strs, else a number); L("", TRUE) is []
L(x, strs) == [t |-> "array", s |-> x, n |-> IF strs THEN 0 ELSE 1]

\* Python truthiness of an argument value
Truthy(v) ==
    CASE v.t = "absent" -> FALSE
      [] v.t = "string" -> v.s # ""
      [] v.t = "integer" -> v.n # 0
      [] v.t = "boolean" -> v.n = 1
      [] v.t = "array" -> v.s # ""
      [] OTHER -> FALSE

\* isinstance(v, int): bool is a subclass of int
IsInstanceInt(v) == v.t \in {"integer", "boolean"}
IsInstanceList(v) == v.t = "array"

\* str(v) and f"{v}" turn any value into a string
PyStr(v) ==
    [t |-> "string", s |-> IF v.t = "boolean" THEN "True" ELSE v.s, n |-> v.n]

Fields == {"namespace", "name", "replicas", "resource_type", "pod_name",
           "container_name", "tail", "command"}
NoArguments == [f \in Fields |-> Absent]

\* --------------------------------------------------------------- backend
\* The cluster holds one deployment, default/web, and one node, node1.
ClusterInit == [exists |-> TRUE, replicas |-> 1]
NodeNames == {"node1"}

\* what a kubectl process does to the cluster when it exits with status 0
KubectlEffect(cmd, cl) ==
    LET inDefault == Len(cmd) >= 3 /\ cmd[2] = S("-n") /\ cmd[3] = S("default")
        args == IF Len(cmd) >= 3 /\ cmd[2] = S("-n") THEN SubSeq(cmd, 4, Len(cmd))
                ELSE Tail(cmd)
        onWeb == inDefault /\ cl.exists /\ Len(args) >= 3
    IN  IF Len(args) >= 4 /\ args[1] = S("scale") THEN
             IF onWeb /\ args[3] = S("web") /\ args[4].s = "" /\ args[4].n \in 0..MaxReplicas
             THEN {[cl EXCEPT !.replicas = args[4].n]} ELSE {}
        ELSE IF args[1] = S("delete") THEN
             IF onWeb /\ args[2] = S("deployment") /\ args[3] = S("web")
             THEN {[cl EXCEPT !.exists = FALSE]} ELSE {}
        ELSE IF args[1] = S("rollout") THEN
             IF onWeb /\ Len(args) >= 4 /\ args[4] = S("web") THEN {cl} ELSE {}
        ELSE {cl}

\* KubectlWrapper.execute_command: the outcomes of one call.  ran tells whether
\* the kubectl process was started.
KubectlExecute(args, namespace, cl) ==
    LET cmd == <<S("kubectl")>>
               \o (IF Truthy(namespace) THEN <<S("-n"), namespace>> ELSE <<>>)
               \o args
    IN  IF \E i \in 1..Len(cmd) : cmd[i].t # "string"
        THEN {[exc |-> "TypeError", ran |-> FALSE, cluster |-> cl]}
        ELSE {[exc |-> "RuntimeError", ran |-> TRUE, cluster |-> cl]}
             \cup {[exc |-> "none", ran |-> TRUE, cluster |-> c] : c \in KubectlEffect(cmd, cl)}

\* KubernetesApiClient.get_deployments: the names listed, or an ApiException
ApiGetDeployments(namespace, cl) ==
    {[exc |-> "ApiException", names |-> {}]}
    \cup {[exc |-> "none",
           names |-> IF cl.exists /\ (~Truthy(namespace) \/ namespace = S("default"))
                     THEN {"web"} ELSE {}]}

\* KubernetesApiClient.get_nodes
ApiGetNodes == {[exc |-> "ApiException", names |-> {}], [exc |-> "none", names |-> NodeNames]}

\* ------------------------------------------------------ handler outcomes
\* What a handler call ends with: a returned result or a raised exception.
Return(isError, entries, text) ==
    [kind |-> "return", exc |-> "none", code |-> "none",
     isError |-> isError, entries |-> entries, text |-> text]
Raise(exc, code, text) ==
    [kind |-> "raise", exc |-> exc, code |-> code,
     isError |-> FALSE, entries |-> 0, text |-> text]

\* One run of a handler: how it ended, the backend calls it made (in order),
\* the handlers that ran, and the cluster it left.
Run(resp, calls, invoked, cl) ==
    [resp |-> resp, calls |-> calls, invoked |-> invoked, cluster |-> cl]

\* CallToolResult(content=[ToolContent(type="text", ...)], is_error=...)
ToolResult(isError, text) == Return(isError, 1, text)

\* ---------------------------------------------------- KubernetesOperations
\* The shape shared by the operations handlers: run one kubectl command inside
\* try/except Exception, and answer ok or "Error ...: {e}".
KubectlStep(call, args, namespace, cl) ==
    {[exc |-> k.exc, calls |-> IF k.ran THEN <<call>> ELSE <<>>, cluster |-> k.cluster] :
        k \in KubectlExecute(args, namespace, cl)}

InvalidArguments(handler, cl) ==
    {Run(ToolResult(TRUE, "invalid arguments"), <<>>, <<handler>>, cl)}

HandleScaleDeployment(arguments, cl) ==
    LET namespace == arguments["namespace"]
        name == arguments["name"]
        replicas == arguments["replicas"]
        h == "_handle_scale_deployment"
    IN  IF ~(Truthy(namespace) /\ Truthy(name) /\ IsInstanceInt(replicas))
        THEN InvalidArguments(h, cl)
        ELSE UNION {
               IF k.exc # "none"
               THEN {Run(ToolResult(TRUE, "error"), k.calls, <<h>>, k.cluster)}
               ELSE {IF d.exc # "none"
                     THEN Run(ToolResult(TRUE, "error"),
                              k.calls \o <<"api.get_deployments">>, <<h>>, k.cluster)
                     ELSE IF name.s \in d.names
                     THEN Run(ToolResult(FALSE, "ok"),
                              k.calls \o <<"api.get_deployments">>, <<h>>, k.cluster)
                     ELSE Run(ToolResult(FALSE, "not verified"),
                              k.calls \o <<"api.get_deployments">>, <<h>>, k.cluster)
                     : d \in ApiGetDeployments(namespace, k.cluster)}
               : k \in KubectlStep("kubectl.scale_deployment",
                                   <<S("scale"), S("deployment"), name, PyStr(replicas)>>,
                                   namespace, cl)}

HandleRestartDeployment(arguments, cl) ==
    LET namespace == arguments["namespace"]
        name == arguments["name"]
        h == "_handle_restart_deployment"
    IN  IF ~(Truthy(namespace) /\ Truthy(name))
        THEN InvalidArguments(h, cl)
        ELSE UNION {
               IF k.exc # "none"
               THEN {Run(ToolResult(TRUE, "error"), k.calls, <<h>>, k.cluster)}
               ELSE {Run(ToolResult(r.exc # "none", IF r.exc # "none" THEN "error" ELSE "ok"),
                         k.calls \o r.calls, <<h>>, r.cluster)
                     : r \in KubectlStep("kubectl.get_rollout_status",
                                         <<S("rollout"), S("status"), S("deployment"), name>>,
                                         namespace, k.cluster)}
               : k \in KubectlStep("kubectl.restart_deployment",
                                   <<S("rollout"), S("restart"), S("deployment"), name>>,
                                   namespace, cl)}

\* a handler that runs its kubectl command a second time when the first failed
OneKubectlRetry(h, call, args, namespace, cl) ==
    UNION {IF k.exc = "none"
           THEN {Run(ToolResult(FALSE, "ok"), k.calls, <<h>>, k.cluster)}
           ELSE {Run(ToolResult(r.exc # "none", IF r.exc # "none" THEN "error" ELSE "ok"),
                     k.calls \o r.calls, <<h>>, r.cluster)
                 : r \in KubectlStep(call, args, namespace, k.cluster)}
           : k \in KubectlStep(call, args, namespace, cl)}

\* the handlers that make one kubectl call
OneKubectl(h, call, args, namespace, cl) ==
    {Run(ToolResult(k.exc # "none", IF k.exc # "none" THEN "error" ELSE "ok"),
         k.calls, <<h>>, k.cluster)
     : k \in KubectlStep(call, args, namespace, cl)}

HandleCreateNamespace(arguments, cl) ==
    LET name == arguments["name"]
        h == "_handle_create_namespace"
    IN  IF ~Truthy(name) THEN InvalidArguments(h, cl)
        ELSE OneKubectl(h, "kubectl.create_namespace",
                        <<S("create"), S("namespace"), name>>, Absent, cl)

HandleDeleteResource(arguments, cl) ==
    LET resource_type == arguments["resource_type"]
        name == arguments["name"]
        namespace == arguments["namespace"]
        h == "_handle_delete_resource"
    IN  IF ~(Truthy(resource_type) /\ Truthy(name)) THEN InvalidArguments(h, cl)
        ELSE OneKubectl(h, "kubectl.delete_resource",
                        <<S("delete"), resource_type, name>>, namespace, cl)

HandleGetLogs(arguments, cl) ==
    LET namespace == arguments["namespace"]
        pod_name == arguments["pod_name"]
        container_name == arguments["container_name"]
        tail == arguments["tail"]
        h == "_handle_get_logs"
    IN  IF ~(Truthy(namespace) /\ Truthy(pod_name)) THEN InvalidArguments(h, cl)
        ELSE OneKubectl(h, "kubectl.get_logs",
                        <<S("logs"), pod_name>>
                        \o (IF Truthy(container_name) THEN <<S("-c"), container_name>> ELSE <<>>)
                        \o (IF Truthy(tail) THEN <<S("--tail"), PyStr(tail)>> ELSE <<>>),
                        namespace, cl)

HandleExecCommand(arguments, cl) ==
    LET namespace == arguments["namespace"]
        pod_name == arguments["pod_name"]
        container_name == arguments["container_name"]
        command == arguments["command"]
        h == "_handle_exec_command"
    IN  IF ~(Truthy(namespace) /\ Truthy(pod_name) /\ Truthy(command))
           \/ ~IsInstanceList(command)
        THEN InvalidArguments(h, cl)
        ELSE OneKubectl(h, "kubectl.exec_command_in_pod",
                        <<S("exec"), pod_name>>
                        \o (IF Truthy(container_name) THEN <<S("-c"), container_name>> ELSE <<>>)
                        \o <<S("--"), IF command.n = 0 THEN S(command.s) ELSE I(1)>>,
                        namespace, cl)

\* ---------------------------------------- KubernetesMonitoring, KubernetesStatus
OperationsTools == {"scale_deployment", "restart_deployment", "create_namespace",
                    "delete_resource", "get_logs", "exec_command"}
MonitoringTools == {"get_cluster_health", "get_resource_usage", "get_pod_resource_usage",
                    "get_events", "describe_resource"}
StatusTools == {"check_component_status", "check_node_health", "check_deployment_health",
                "check_api_server_health", "check_resource_quotas",
                "run_cluster_diagnostics"}

\* A monitoring handler reads the backend inside try/except Exception and
\* answers with one text entry.
HandleMonitoringTool(name, cl) ==
    {Run(ToolResult(FALSE, "ok"), <<"backend.read">>, <<name>>, cl),
     Run(ToolResult(TRUE, "error"), <<"backend.read">>, <<name>>, cl)}

\* A status handler reads the backend and then builds its answer from
\* ToolContent, a name status.py never imports: NameError in the try block and
\* again in the except block.
HandleStatusTool(name, cl) ==
    {Run(Raise("NameError", "none", "ToolContent"), <<"backend.read">>, <<name>>, cl)}

\* _handle_tool_request without its else branch: an unknown name gets no answer
HandleToolRequestSilent(tool_name, arguments, cl) ==
    IF tool_name \in StatusTools
    THEN {[r EXCEPT !.invoked = <<"_handle_tool_request">> \o r.invoked] :
             r \in HandleStatusTool(tool_name, cl)}
    ELSE {}

\* _handle_tool_request with is_error left out of the unknown-tool result
HandleToolRequestNotError(tool_name, arguments, cl) ==
    IF tool_name \in StatusTools
    THEN {[r EXCEPT !.invoked = <<"_handle_tool_request">> \o r.invoked] :
             r \in HandleStatusTool(tool_name, cl)}
    ELSE {Run(ToolResult(FALSE, "unknown tool"), <<>>, <<"_handle_tool_request">>, cl)}

\* KubernetesStatus._handle_tool_request, the CallToolRequest handler
HandleToolRequest(tool_name, arguments, cl) ==
    IF tool_name \in StatusTools
    THEN {[r EXCEPT !.invoked = <<"_handle_tool_request">> \o r.invoked] :
             r \in HandleStatusTool(tool_name, cl)}
    ELSE {Run(ToolResult(TRUE, "unknown tool"), <<>>, <<"_handle_tool_request">>, cl)}

\* the handler server.register_tool(name, handler) was given
RegisteredToolHandler(tool_name, arguments, cl) ==
    CASE tool_name = "scale_deployment" -> HandleScaleDeployment(arguments, cl)
      [] tool_name = "restart_deployment" -> HandleRestartDeployment(arguments, cl)
      [] tool_name = "create_namespace" -> HandleCreateNamespace(arguments, cl)
      [] tool_name = "delete_resource" -> HandleDeleteResource(arguments, cl)
      [] tool_name = "get_logs" -> HandleGetLogs(arguments, cl)
      [] tool_name = "exec_command" -> HandleExecCommand(arguments, cl)
      [] OTHER -> HandleMonitoringTool(tool_name, cl)

\* ------------------------------------------------------- resource handlers
INVALID_REQUEST == "INVALID_REQUEST"
METHOD_NOT_FOUND == "METHOD_NOT_FOUND"
INTERNAL_ERROR == "INTERNAL_ERROR"
INVALID_PARAMS == "INVALID_PARAMS"

\* a path segment as the backend client receives it
SegValue(seg) ==
    IF seg = None THEN Absent
    ELSE IF seg = EmptyStr THEN S("")
    ELSE S(seg[1])

\* ReadResourceResult(contents=[one content]): the content is the list of the
\* instances ("kind": "NodeList", "DeploymentList") when the parsed name is None
\* and one instance ("Node", "Deployment") otherwise
ReadResult(name) == Return(FALSE, 1, IF name = None THEN "list" ELSE "instance")

\* except ValueError: raise / except Exception: raise ValueError(...)
AsValueError(resp) ==
    IF resp.kind = "raise" /\ resp.exc # "ValueError"
    THEN Raise("ValueError", "none", "failed to get resource") ELSE resp

\* handle_resource_request without the "if not deployment" check
DeploymentHandleResourceRequestUnchecked(uri, cl) ==
    LET p == ParseResourceUri(uri)
        h == "DeploymentResourceHandler.handle_resource_request"
    IN  IF ~p.ok THEN {Run(Raise("ValueError", "none", "invalid uri"), <<>>, <<h>>, cl)}
        ELSE {Run(AsValueError(IF d.exc # "none" THEN Raise(d.exc, "none", "backend")
                               ELSE ReadResult(p.name)),
                  <<IF d.exc # "none" THEN "api.get_deployments:raised"
                    ELSE "api.get_deployments">>, <<h>>, cl)
              : d \in ApiGetDeployments(SegValue(p.namespace), cl)}

DeploymentHandleResourceRequest(uri, cl) ==
    LET p == ParseResourceUri(uri)
        h == "DeploymentResourceHandler.handle_resource_request"
    IN  IF ~p.ok THEN {Run(Raise("ValueError", "none", "invalid uri"), <<>>, <<h>>, cl)}
        ELSE IF p.resource_type # Str("deployments")
        THEN {Run(Raise("ValueError", "none", "invalid resource type"), <<>>, <<h>>, cl)}
        ELSE IF p.name # None /\ p.namespace = None
        THEN {Run(Raise("ValueError", "none", "namespace is required"), <<>>, <<h>>, cl)}
        ELSE {Run(AsValueError(
                    IF d.exc # "none" THEN Raise(d.exc, "none", "backend")
                    ELSE IF p.name # None /\ SegValue(p.name).s \notin d.names
                    THEN Raise("ValueError", "none", "not found")
                    ELSE ReadResult(p.name)),
                  <<IF d.exc # "none" THEN "api.get_deployments:raised"
                    ELSE "api.get_deployments">>, <<h>>, cl)
              : d \in ApiGetDeployments(SegValue(p.namespace), cl)}

NodeHandleResourceRequest(uri, cl) ==
    LET p == ParseResourceUri(uri)
        h == "NodeResourceHandler.handle_resource_request"
    IN  IF ~p.ok THEN {Run(Raise("ValueError", "none", "invalid uri"), <<>>, <<h>>, cl)}
        ELSE IF p.resource_type # Str("nodes")
        THEN {Run(Raise("ValueError", "none", "invalid resource type"), <<>>, <<h>>, cl)}
        ELSE {Run(AsValueError(
                    IF d.exc # "none" THEN Raise(d.exc, "none", "backend")
                    ELSE IF p.name # None /\ SegValue(p.name).s \notin d.names
                    THEN Raise("ValueError", "none", "not found")
                    ELSE ReadResult(p.name)),
                  <<IF d.exc # "none" THEN "api.get_nodes:raised" ELSE "api.get_nodes">>,
                  <<h>>, cl)
              : d \in ApiGetNodes}

\* KubernetesMcpServer.resource_handlers
ResourceHandlerTypes == {Str("nodes"), Str("deployments")}

\* the try block of _handle_read_resource
ReadResourceTry(uri, cl) ==
    LET p == ParseResourceUri(uri)
    IN  IF ~p.ok THEN {Run(Raise("ValueError", "none", "invalid uri"), <<>>, <<>>, cl)}
        ELSE IF p.resource_type \in ResourceHandlerTypes
        THEN IF p.resource_type = Str("nodes")
             THEN NodeHandleResourceRequest(uri, cl)
             ELSE DeploymentHandleResourceRequest(uri, cl)
        ELSE {Run(Raise("McpError", METHOD_NOT_FOUND, "resource type not supported"),
                  <<>>, <<>>, cl)}

\* the except clauses with ValueError reported as INVALID_PARAMS
ReadResourceExceptParams(resp) ==
    IF resp.kind # "raise" THEN resp
    ELSE IF resp.exc = "ValueError"
    THEN Raise("McpError", INVALID_PARAMS, resp.text)
    ELSE Raise("McpError", INTERNAL_ERROR, resp.text)

\* the except clauses with "except Exception" placed first
ReadResourceExceptBroad(resp) ==
    IF resp.kind # "raise" THEN resp
    ELSE Raise("McpError", INTERNAL_ERROR, resp.text)

\* the except clauses of _handle_read_resource, in their order
ReadResourceExcept(resp) ==
    IF resp.kind # "raise" THEN resp
    ELSE IF resp.exc = "ValueError"
    THEN Raise("McpError", INVALID_REQUEST, resp.text)
    ELSE Raise("McpError", INTERNAL_ERROR, resp.text)

\* KubernetesMcpServer._handle_read_resource, the ReadResourceRequest handler
HandleReadResource(uri, cl) ==
    {[r EXCEPT !.resp = ReadResourceExcept(r.resp),
               !.invoked = <<"_handle_read_resource">> \o r.invoked]
     : r \in ReadResourceTry(uri, cl)}

\* ---------------------------------------------------------- FastMCP server
\* read_resource of cluster_resources.py.  Every path returns a string, which
\* FastMCP sends as the one content entry of a successful read.
NamespacedTypes == {Str("pods"), Str("deployments"), Str("services"),
                    Str("persistentvolumeclaims")}

\* K8sClient.get_pod / get_deployment / get_node ...: the resource, None, or an
\* exception other than ApiException
ClientGet(resource_type, name, namespace, cl) ==
    {"raised"} \cup
    {IF \/ resource_type = Str("deployments") /\ namespace = Str("default")
           /\ name = Str("web") /\ cl.exists
        \/ resource_type = Str("nodes") /\ name = Str("node1")
     THEN "found" ELSE "None"}

FastmcpReadResource(uri, cl) ==
    LET h == "read_resource"
        parts == IF StartsWith(uri, K8S_SCHEME) THEN Split(Tail(uri)) ELSE <<>>
        nonEmpty == \A i \in 1..Len(parts) : parts[i] # EmptyStr
        call(g) == <<IF g = "raised" THEN "k8s_client.get:raised" ELSE "k8s_client.get">>
        text(g) == CASE g = "found" -> "ok" [] g = "None" -> "not found"
                      [] OTHER -> "error"
    IN  IF Len(parts) = 4 /\ nonEmpty /\ parts[1] = Str("namespaces")
        THEN IF parts[3] \in NamespacedTypes
             THEN {Run(Return(FALSE, 1, text(g)), call(g), <<h>>, cl)
                   : g \in ClientGet(parts[3], parts[4], parts[2], cl)}
             ELSE {Run(Return(FALSE, 1, "unsupported resource type"), <<>>, <<h>>, cl)}
        ELSE IF Len(parts) = 2 /\ nonEmpty
        THEN IF parts[1] \in {Str("nodes"), Str("persistentvolumes")}
             THEN {Run(Return(FALSE, 1, text(g)), call(g), <<h>>, cl)
                   : g \in ClientGet(parts[1], parts[2], None, cl)}
             ELSE IF parts[1] = Str("namespaces")
             THEN {Run(Return(FALSE, 1, "ok"), <<"k8s_client.get">>, <<h>>, cl),
                   Run(Return(FALSE, 1, "error"), <<"k8s_client.get:raised">>, <<h>>, cl)}
             ELSE {Run(Return(FALSE, 1, "unsupported resource type"), <<>>, <<h>>, cl)}
        ELSE {Run(Return(FALSE, 1, "invalid uri"), <<>>, <<h>>, cl)}

\* list_resources of cluster_resources.py: one block per resource type, each in
\* its own try/except that logs and goes on; the four namespaced types are
\* listed inside a second loop over get_namespaces().
ListedTypes == <<"namespaces", "nodes", "persistentvolumes", "pods", "deployments",
                 "services", "persistentvolumeclaims">>
NamespacedListed == {"pods", "deployments", "services", "persistentvolumeclaims"}

\* the K8sClient call that enumerates a type, and the same call failing
ListCall ==
    [namespaces |-> <<"k8s_client.get_namespaces", "k8s_client.get_namespaces:raised">>,
     nodes |-> <<"k8s_client.get_nodes", "k8s_client.get_nodes:raised">>,
     persistentvolumes |-> <<"k8s_client.get_persistent_volumes",
                             "k8s_client.get_persistent_volumes:raised">>,
     pods |-> <<"k8s_client.get_pods", "k8s_client.get_pods:raised">>,
     deployments |-> <<"k8s_client.get_deployments", "k8s_client.get_deployments:raised">>,
     services |-> <<"k8s_client.get_services", "k8s_client.get_services:raised">>,
     persistentvolumeclaims |-> <<"k8s_client.get_persistent_volume_claims",
                                  "k8s_client.get_persistent_volume_claims:raised">>]

\* the objects of a type the cluster holds: the namespace default, the node
\* node1, the deployment default/web
Listed(type, cl) ==
    CASE type = "namespaces" -> {"default"}
      [] type = "nodes" -> NodeNames
      [] type = "deployments" -> IF cl.exists THEN {"web"} ELSE {}
      [] OTHER -> {}

\* the descriptors list_resources appends for the types from position i on, when
\* the enumeration of the type failing fails on every call ("none": no failure)
RECURSIVE ListFrom(_, _, _)
ListFrom(i, failing, cl) ==
    IF i > Len(ListedTypes) THEN [entries |-> 0, calls |-> <<>>]
    ELSE LET t == ListedTypes[i]
             rest == ListFrom(i + 1, failing, cl)
         IN  IF t \in NamespacedListed /\ failing = "namespaces"
             THEN rest                     \* the loop over namespaces has no turn
             ELSE IF t = failing
             THEN [entries |-> rest.entries, calls |-> <<ListCall[t][2]>> \o rest.calls]
             ELSE [entries |-> Cardinality(Listed(t, cl)) + rest.entries,
                   calls |-> <<ListCall[t][1]>> \o rest.calls]

FastmcpListResources(cl) ==
    {LET l == ListFrom(1, failing, cl)
     IN  Run(Return(FALSE, l.entries, "ok"), l.calls, <<"list_resources">>, cl)
     : failing \in {"none"} \cup {ListedTypes[i] : i \in 1..Len(ListedTypes)}}

\* K8sOperations.scale_deployment, called by the scale_deployment tool: the
\* backend scales, or fails (a failure report or an exception)
OperationsScale(name, replicas, namespace, cl) ==
    {[ok |-> FALSE, cluster |-> cl]} \cup
    {[ok |-> TRUE, cluster |-> [cl EXCEPT !.replicas = replicas.n]] : x \in
        IF cl.exists /\ name = S("web") /\ namespace \in {Absent, S("default")}
           /\ replicas.n \in 0..MaxReplicas
        THEN {TRUE} ELSE {}}

\* the tool scale_deployment(name: str, replicas: int, namespace: Optional[str])
\* of operation_tools.py: the try path and the except path return a JSON string
FastmcpScaleDeployment(arguments, cl) ==
    {Run(Return(FALSE, 1, IF o.ok THEN "ok" ELSE "error"),
         <<"k8s_operations.scale_deployment">>, <<"scale_deployment">>, o.cluster)
     : o \in OperationsScale(arguments["name"], arguments["replicas"],
                             arguments["namespace"], cl)}

\* ---------------------------------------------------------------- requests
Kinds == {"listResources", "listResourceTemplates", "listTools", "readResource", "callTool"}

Request(kind, uri, name, arguments) ==
    [kind |-> kind, uri |-> uri, name |-> name, arguments |-> arguments]
NoRequest == Request("none", <<>>, "", NoArguments)

\* the segments a client puts at position i of a path
SegAt(i) ==
    CASE i = 1 -> {Str("nodes"), Str("deployments"), Str("pods"), EmptyStr}
      [] i = 2 -> {Str("default"), Str("all"), Str("ALL"), Str("node1")}
      [] i = 3 -> {Str("web"), Str("missing"), Str("node1")}
      [] OTHER -> {Str("web")}

RECURSIVE SegLists(_)
SegLists(n) ==
    IF n = 0 THEN {<<>>}
    ELSE {Append(l, seg) : l \in SegLists(n - 1), seg \in SegAt(n)}

RECURSIVE Join(_)
Join(segs) ==
    IF segs = <<>> THEN <<>>
    ELSE IF Len(segs) = 1 THEN segs[1]
    ELSE segs[1] \o <<Slash>> \o Join(Tail(segs))

Paths ==
    LET plain == {Join(l) : l \in UNION {SegLists(n) : n \in 0..MaxSegments}}
    IN  plain \cup {q \o <<Slash>> : q \in plain}

LowlevelUris == {<<sch>> \o q : sch \in {KUBERNETES_SCHEME, "bogus://"}, q \in Paths}

FastmcpUris ==
    {<<K8S_SCHEME>> \o Join(l) : l \in
        {<<Str("namespaces"), Str("default"), Str("deployments"), Str("web")>>,
         <<Str("namespaces"), Str("default"), Str("deployments"), Str("missing")>>,
         <<Str("namespaces"), Str("default"), Str("pods"), Str("web")>>,
         <<Str("namespaces"), Str("default"), Str("nodes"), Str("node1")>>,
         <<Str("namespaces"), Str("default"), EmptyStr, Str("web")>>,
         <<Str("nodes"), Str("node1")>>, <<Str("nodes"), Str("missing")>>,
         <<Str("namespaces"), Str("default")>>, <<Str("pods"), Str("web")>>,
         <<Str("nodes")>>, <<>>}}
    \cup {<<KUBERNETES_SCHEME, "deployments", Slash, "default", Slash, "missing">>}

\* the values a client sends for an argument
Cand(f) ==
    CASE f = "namespace" -> {Absent, S("default"), I(123)}
      [] f = "name" -> {Absent, S("web"), S("missing"), I(7)}
      [] f = "replicas" -> {Absent, S("two"), B(TRUE)} \cup {I(k) : k \in -1..MaxReplicas}
      [] f = "resource_type" -> {Absent, S("deployment"), S("pod")}
      [] f = "pod_name" -> {Absent, S("web")}
      [] f = "container_name" -> {Absent, S("c"), I(5)}
      [] f = "tail" -> {Absent, I(1), I(-5), S("abc")}
      [] f = "command" -> {Absent, L("ls", TRUE), L("", TRUE), S("ls"), L("x", FALSE)}

\* the properties each operations tool declares in its input_schema
Properties(tool) ==
    CASE tool = "scale_deployment" -> {"namespace", "name", "replicas"}
      [] tool = "restart_deployment" -> {"namespace", "name"}
      [] tool = "create_namespace" -> {"name"}
      [] tool = "delete_resource" -> {"resource_type", "name", "namespace"}
      [] tool = "get_logs" -> {"namespace", "pod_name", "container_name", "tail"}
      [] tool = "exec_command" -> {"namespace", "pod_name", "container_name", "command"}
      [] OTHER -> {}

RECURSIVE ArgumentsOver(_)
ArgumentsOver(fs) ==
    IF fs = {} THEN {NoArguments}
    ELSE LET f == CHOOSE x \in fs : TRUE
         IN  {[a EXCEPT ![f] = v] : a \in ArgumentsOver(fs \ {f}), v \in Cand(f)}

LowlevelToolNames == OperationsTools \cup {"get_events", "check_node_health", "bogus_tool"}

LowlevelRequests ==
    {Request(k, <<>>, "", NoArguments) : k \in Kinds \ {"readResource", "callTool"}}
    \cup {Request("readResource", u, "", NoArguments) : u \in LowlevelUris}
    \cup UNION {{Request("callTool", <<>>, t, a) : a \in ArgumentsOver(Properties(t))}
                : t \in LowlevelToolNames}

\* the FastMCP tool is called with arguments of the types its signature names
FastmcpRequests ==
    {Request("readResource", u, "", NoArguments) : u \in FastmcpUris}
    \cup {Request("listResources", <<>>, "", NoArguments)}
    \cup {Request("callTool", <<>>, "scale_deployment",
                  [NoArguments EXCEPT !["name"] = n, !["replicas"] = I(k), !["namespace"] = ns])
          : n \in {S("web"), S("missing")}, k \in -1..MaxReplicas,
            ns \in {Absent, S("default")}}

\* ------------------------------------------------------------------- state
VARIABLES
    server,              \* the entry point that runs: "lowlevel" (src/src/server.py)
                         \* or "fastmcp" (src/mcp_k8s_server/server.py)
    boot,                \* how far start-up has come
    request_handlers,    \* Server.request_handlers: request kind -> handler
    tools,               \* Server.tools: the tool definitions advertised, by name
    tool_handlers,       \* the names given to Server.register_tool
    resources,           \* Server.resources
    resource_templates,  \* Server.resource_templates
    lifecycle,           \* Idle, Awaiting, Processing, Closed
    current,             \* the request being processed, or the last one processed
    outcome,             \* how the handler of current ended, before the response is written
    last,                \* the response written for current
    calls,               \* the backend calls made for current, in order
    invoked,             \* the handlers that ran for current, in order
    received,            \* requests read from the connection
    written,             \* responses written to the connection
    cluster              \* the backend

\* the calls of ResourceUriParser made on their own
VARIABLES
    uriIn,               \* the string given to parse_resource_uri
    tripleIn,            \* the (resource_type, namespace, name) given to build_resource_uri
    parsed,              \* what parse_resource_uri returned or that it raised
    built,               \* what build_resource_uri returned
    stage                \* "input", "parsed", "built", "reparsed"

uriVars == <<uriIn, tripleIn, parsed, built, stage>>

\* the socket transport of tcp_server.py and the tasks of its event loop
VARIABLES
    tcpPc,               \* where KubernetesMcpServer.run is in "async with tcp_server(...)"
    listening,           \* the listening socket of TcpServer.server is open
    client_connected,    \* the future TcpServer.client_connected is done
    client_reader,       \* TcpServer.client_reader: the connection it belongs to, 0 for None
    client_writer,       \* TcpServer.client_writer, likewise
    streams,             \* the (read_stream, write_stream) pair __aenter__ returned
    conn,                \* per connection: its _handle_client task, end-of-input, close() calls
    loopEnd,             \* how the dispatcher loop ended
    waitsForClients,     \* Server.wait_closed() waits for the open connections
    handled              \* requests the dispatcher handled on the pair

tcpVars == <<tcpPc, listening, client_connected, client_reader, client_writer,
             streams, conn, loopEnd, waitsForClients, handled>>

\* the configuration dictionaries of utils/config.py
VARIABLES
    dicts,               \* the nested dict objects, by identity: what each holds
    config,              \* the dict load_config returned last: section -> object
    loadedFrom           \* the config_path of that call: "none", "file", or "unset"

cfgVars == <<dicts, config, loadedFrom>>
auxVars == <<uriVars, tcpVars, cfgVars>>

\* DEFAULT_CONFIG: a dict whose sections are the dict objects D1 and D2
DEFAULT_CONFIG == [server |-> "D1", kubernetes |-> "D2"]
\* what the two objects hold when the module is imported
DefaultDicts ==
    [D1 |-> [bind_ip |-> "10.121.87.184", bind_port |-> "8080", mode |-> "network"],
     D2 |-> [kubeconfig_path |-> "None"]]
Unset == "<unset>"

\* utils/config.py imported, load_config not yet called
CfgIdle ==
    /\ dicts = DefaultDicts
    /\ config = [server |-> Unset, kubernetes |-> Unset]
    /\ loadedFrom = "unset"

Clients == 1..MaxClients
NoConn == [state |-> "none", eof |-> FALSE, closes |-> 0]

\* TcpServer.__init__: nothing listens, no client is known
TcpNew ==
    /\ listening = FALSE /\ client_connected = FALSE
    /\ client_reader = 0 /\ client_writer = 0
    /\ streams = <<0, 0>>
    /\ conn = [c \in Clients |-> NoConn]
    /\ loopEnd = "none" /\ handled = 0

\* the server runs in stdio mode: no socket transport
TcpIdle == tcpPc = "off" /\ waitsForClients = FALSE /\ TcpNew

NoUri == <<>>
NoTriple == <<>>

\* no call of the parser on its own is under way
UriIdle ==
    /\ uriIn = NoUri /\ tripleIn = NoTriple
    /\ parsed = ParseError /\ built = NoUri /\ stage = "input"

bootVars == <<boot, request_handlers, tools, tool_handlers, resources, resource_templates>>
loopVars == <<lifecycle, current, outcome, last, calls, invoked, received, written, cluster>>
vars == <<server, bootVars, loopVars, auxVars>>

NoOutcome == [kind |-> "none", exc |-> "none", code |-> "none",
              isError |-> FALSE, entries |-> 0, text |-> ""]
NoResponse == [kind |-> "none", code |-> "none", isError |-> FALSE, entries |-> 0, text |-> ""]

NoHandlers == [k \in Kinds |-> "none"]

\* a server object before its constructor has run, and no connection
ServerNew ==
    /\ boot = "new"
    /\ request_handlers = NoHandlers
    /\ tools = <<>>
    /\ tool_handlers = {}
    /\ resources = <<>>
    /\ resource_templates = <<>>
    /\ lifecycle = "Idle"
    /\ current = NoRequest
    /\ outcome = NoOutcome
    /\ last = NoResponse
    /\ calls = <<>>
    /\ invoked = <<>>
    /\ received = 0
    /\ written = 0
    /\ cluster = ClusterInit

Init ==
    /\ server \in {"lowlevel", "fastmcp"}
    /\ ServerNew
    /\ UriIdle
    /\ TcpIdle
    /\ CfgIdle

\* ---------------------------------------------------------------- start-up
\* the order in which register_tools() of each class appends its definitions
OperationsToolOrder == <<"scale_deployment", "restart_deployment", "create_namespace",
                         "delete_resource", "get_logs", "exec_command">>
MonitoringToolOrder == <<"get_cluster_health", "get_resource_usage",
                         "get_pod_resource_usage", "get_events", "describe_resource">>
Range(seq) == {seq[i] : i \in 1..Len(seq)}

\* KubernetesOperations(...): register_tools()
ConstructOperations ==
    /\ server = "lowlevel" /\ boot = "new"
    /\ tools' = tools \o OperationsToolOrder
    /\ tool_handlers' = tool_handlers \cup Range(OperationsToolOrder)
    /\ boot' = "operations"
    /\ UNCHANGED <<server, auxVars, request_handlers, resources, resource_templates, loopVars>>

\* a KubernetesMonitoring that also defines a get_logs tool of its own
ConstructMonitoringClash ==
    /\ server = "lowlevel" /\ boot = "operations"
    /\ tools' = tools \o MonitoringToolOrder \o <<"get_logs">>
    /\ tool_handlers' = tool_handlers \cup Range(MonitoringToolOrder)
    /\ boot' = "monitoring"
    /\ UNCHANGED <<server, auxVars, request_handlers, resources, resource_templates, loopVars>>

\* a KubernetesMonitoring that registers its tools again after a request
ConstructMonitoringAgain ==
    /\ server = "lowlevel"
    /\ boot = "operations" \/ (boot = "failed" /\ written = 1 /\ lifecycle = "Awaiting"
                                /\ Len(tools) < 2 * Len(OperationsToolOrder \o MonitoringToolOrder))
    /\ tools' = tools \o MonitoringToolOrder
    /\ tool_handlers' = tool_handlers \cup Range(MonitoringToolOrder)
    /\ boot' = IF boot = "operations" THEN "monitoring" ELSE boot
    /\ UNCHANGED <<server, auxVars, request_handlers, resources, resource_templates, loopVars>>

\* KubernetesMonitoring(...): register_tools()
ConstructMonitoring ==
    /\ server = "lowlevel" /\ boot = "operations"
    /\ tools' = tools \o MonitoringToolOrder
    /\ tool_handlers' = tool_handlers \cup Range(MonitoringToolOrder)
    /\ boot' = "monitoring"
    /\ UNCHANGED <<server, auxVars, request_handlers, resources, resource_templates, loopVars>>

\* KubernetesStatus(...): register_tools() sets the CallToolRequest handler and
\* appends no tool definition
ConstructStatus ==
    /\ server = "lowlevel" /\ boot = "monitoring"
    /\ request_handlers' = [request_handlers EXCEPT !["callTool"] = "_handle_tool_request"]
    /\ boot' = "status"
    /\ UNCHANGED <<server, auxVars, tools, tool_handlers, resources, resource_templates, loopVars>>

\* handler.register_resources() of one resource handler: what it adds, or raised.
\* NodeResourceHandler calls super().register_resources(), which raises
\* NotImplementedError; DeploymentResourceHandler extends both lists.
RegisterResources(type) ==
    IF type = "nodes"
    THEN [raised |-> TRUE, resources |-> <<>>, templates |-> <<>>]
    ELSE [raised |-> FALSE,
          resources |-> <<<<KUBERNETES_SCHEME, type>>>>,
          templates |-> << <<KUBERNETES_SCHEME, type, Slash, "{namespace}">>,
                           <<KUBERNETES_SCHEME, type, Slash, "{namespace}", Slash, "{name}">> >>]

\* the insertion order of KubernetesMcpServer.resource_handlers
ResourceHandlerOrder == <<"nodes", "deployments">>

\* the for loop of _register_handlers over handlers[i..]: the lists it leaves and
\* whether an exception ended it
RECURSIVE RegisterLoop(_, _, _)
RegisterLoop(i, res, tmpl) ==
    IF i > Len(ResourceHandlerOrder)
    THEN [raised |-> FALSE, resources |-> res, templates |-> tmpl]
    ELSE LET r == RegisterResources(ResourceHandlerOrder[i])
         IN  IF r.raised THEN [raised |-> TRUE, resources |-> res, templates |-> tmpl]
             ELSE RegisterLoop(i + 1, res \o r.resources, tmpl \o r.templates)

\* KubernetesMcpServer._register_handlers()
RegisterHandlers ==
    /\ server = "lowlevel" /\ boot = "status"
    /\ LET r == RegisterLoop(1, resources, resource_templates)
       IN  /\ resources' = r.resources
           /\ resource_templates' = r.templates
           /\ IF r.raised
              THEN /\ boot' = "failed"
                   /\ UNCHANGED request_handlers
              ELSE /\ boot' = "ready"
                   /\ request_handlers' =
                        [request_handlers EXCEPT !["readResource"] = "_handle_read_resource"]
    /\ UNCHANGED <<server, auxVars, tools, tool_handlers, loopVars>>

\* create_server() of the FastMCP entry point: FastMCP serves the list requests
\* itself; the decorators add the tools and the two resource functions
FastmcpToolOrder == <<"create_resource", "update_resource", "delete_resource",
                      "scale_deployment", "restart_deployment", "execute_command">>

CreateServer ==
    /\ server = "fastmcp" /\ boot = "new"
    /\ tools' = FastmcpToolOrder
    /\ tool_handlers' = Range(FastmcpToolOrder)
    /\ request_handlers' = [k \in Kinds |->
                              CASE k = "listResources" -> "list_resources"
                                [] k = "readResource" -> "read_resource"
                                [] k = "callTool" -> "FastMCP.call_tool"
                                [] OTHER -> "FastMCP"]
    /\ boot' = "ready"
    /\ UNCHANGED <<server, auxVars, resources, resource_templates, loopVars>>

\* -------------------------------------------------------------- dispatcher
\* The runs a request can take through the handler its kind is given by the
\* code: server.py sets the ReadResourceRequest handler, status.py the
\* CallToolRequest handler, and register_tool names a handler per tool; no
\* statement of the low-level server sets a handler for the three list kinds.
Dispatch(srv, req, cl) ==
    IF srv = "lowlevel" THEN
        CASE req.kind = "readResource" -> HandleReadResource(req.uri, cl)
          [] req.kind = "callTool" ->
                HandleToolRequest(req.name, req.arguments, cl)
                \cup (IF req.name \in OperationsTools \cup MonitoringTools
                      THEN RegisteredToolHandler(req.name, req.arguments, cl) ELSE {})
          [] OTHER -> {Run(Raise("NoHandler", METHOD_NOT_FOUND, "method not found"),
                           <<>>, <<>>, cl)}
    ELSE
        CASE req.kind = "readResource" -> FastmcpReadResource(req.uri, cl)
          [] req.kind = "listResources" -> FastmcpListResources(cl)
          [] OTHER -> FastmcpScaleDeployment(req.arguments, cl)

\* the response the dispatcher writes for the way a handler ended
ToResponse(resp) ==
    IF resp.kind = "return"
    THEN [kind |-> "result", code |-> "none", isError |-> resp.isError,
          entries |-> resp.entries, text |-> resp.text]
    ELSE [kind |-> "error",
          code |-> IF resp.exc \in {"McpError", "NoHandler"} THEN resp.code
                   ELSE INTERNAL_ERROR,
          isError |-> FALSE, entries |-> 0, text |-> resp.text]

Requests(srv) == IF srv = "lowlevel" THEN LowlevelRequests ELSE FastmcpRequests

\* the transport hands its stream pair to the dispatcher
Connect ==
    /\ boot \in {"ready", "failed"}
    /\ lifecycle = "Idle"
    /\ lifecycle' = "Awaiting"
    /\ UNCHANGED <<server, auxVars, bootVars, current, outcome, last, calls, invoked,
                   received, written, cluster>>

\* a request taken while the previous one is still in Processing
ReceiveEarly ==
    /\ lifecycle \in {"Awaiting", "Processing"}
    /\ received < MaxRequests
    /\ \E req \in Requests(server) : current' = req
    /\ lifecycle' = "Processing"
    /\ received' = received + 1
    /\ outcome' = NoOutcome
    /\ last' = NoResponse
    /\ calls' = <<>>
    /\ invoked' = <<>>
    /\ UNCHANGED <<server, auxVars, bootVars, written, cluster>>

\* one complete request message arrives
Receive ==
    /\ lifecycle = "Awaiting"
    /\ received < MaxRequests
    /\ \E req \in Requests(server) : current' = req
    /\ lifecycle' = "Processing"
    /\ received' = received + 1
    /\ outcome' = NoOutcome
    /\ last' = NoResponse
    /\ calls' = <<>>
    /\ invoked' = <<>>
    /\ UNCHANGED <<server, auxVars, bootVars, written, cluster>>

\* the handler of the request runs to its end
Handle ==
    /\ lifecycle = "Processing"
    /\ outcome = NoOutcome
    /\ \E r \in Dispatch(server, current, cluster) :
          /\ outcome' = r.resp
          /\ calls' = r.calls
          /\ invoked' = r.invoked
          /\ cluster' = r.cluster
    /\ UNCHANGED <<server, auxVars, bootVars, lifecycle, current, last, received, written>>

\* a Respond that ends the connection when the handler failed
RespondClosing ==
    /\ lifecycle = "Processing"
    /\ outcome # NoOutcome
    /\ last' = ToResponse(outcome)
    /\ written' = written + 1
    /\ outcome' = NoOutcome
    /\ lifecycle' = IF outcome.kind = "raise" \/ outcome.isError THEN "Closed" ELSE "Awaiting"
    /\ UNCHANGED <<server, auxVars, bootVars, current, calls, invoked, received, cluster>>

\* the response is written
Respond ==
    /\ lifecycle = "Processing"
    /\ outcome # NoOutcome
    /\ last' = ToResponse(outcome)
    /\ written' = written + 1
    /\ outcome' = NoOutcome
    /\ lifecycle' = "Awaiting"
    /\ UNCHANGED <<server, auxVars, bootVars, current, calls, invoked, received, cluster>>

\* the input stream ends
EndOfInput ==
    /\ lifecycle = "Awaiting"
    /\ lifecycle' = "Closed"
    /\ UNCHANGED <<server, auxVars, bootVars, current, outcome, last, calls, invoked,
                   received, written, cluster>>

Next ==
    \/ ConstructOperations
    \/ ConstructMonitoring
    \/ ConstructStatus
    \/ RegisterHandlers
    \/ CreateServer
    \/ Connect
    \/ Receive
    \/ Handle
    \/ Respond
    \/ EndOfInput

Spec == Init /\ [][Next]_vars

\* ------------------------------------------------------------- input_schema
\* the "required" list of each operations tool
Required(tool) ==
    CASE tool = "scale_deployment" -> {"namespace", "name", "replicas"}
      [] tool = "restart_deployment" -> {"namespace", "name"}
      [] tool = "create_namespace" -> {"name"}
      [] tool = "delete_resource" -> {"resource_type", "name"}
      [] tool = "get_logs" -> {"namespace", "pod_name"}
      [] tool = "exec_command" -> {"namespace", "pod_name", "command"}
      [] OTHER -> {}

\* the "type" each property is declared with
DeclaredType(f) ==
    CASE f \in {"replicas", "tail"} -> "integer"
      [] f = "command" -> "array"
      [] OTHER -> "string"

\* arguments that omit a required field or give a field a value of another type
SchemaViolation(tool, arguments) ==
    \/ \E f \in Required(tool) : arguments[f].t = "absent"
    \/ \E f \in Properties(tool) :
          arguments[f].t # "absent" /\ arguments[f].t # DeclaredType(f)

\* ------------------------------------------------------------------ claims
Answered == last # NoResponse
ProtocolCodes == {INVALID_REQUEST, METHOD_NOT_FOUND, INTERNAL_ERROR}
ResourceHandlerNames == {"NodeResourceHandler.handle_resource_request",
                         "DeploymentResourceHandler.handle_resource_request"}

\* C1: every request received on a connection is answered by exactly one
\* response before the dispatcher is Awaiting again: its handler ends in one
\* result or one exception, the response count grows by one on the way back to
\* Awaiting, and outside Processing as many responses are written as requests
\* were received.
C1_ExactlyOneResponse ==
    /\ []((lifecycle = "Processing" /\ outcome = NoOutcome)
            => \E r \in Dispatch(server, current, cluster) :
                   r.resp.kind \in {"return", "raise"})
    /\ [][ /\ (lifecycle = "Processing" /\ lifecycle' = "Awaiting")
                => (written' = written + 1 /\ last' # NoResponse)
           /\ (lifecycle' # "Processing") => written' = received'
           /\ written' \in {written, written + 1} ]_vars

C1_Witness ==
    lifecycle = "Awaiting" /\ written = received /\ written >= 1 /\ last.kind = "error"

\* C2: a request is taken from the connection only when every earlier request
\* has its response written, so at most one request is in Processing and the
\* backend is touched only for the request in Processing.
C2_NoConcurrentRequests ==
    [][ /\ (received' # received)
            => (lifecycle = "Awaiting" /\ written = received /\ outcome = NoOutcome)
        /\ received' - written' \in {0, 1}
        /\ (cluster' # cluster) => (lifecycle = "Processing" /\ received = written + 1) ]_vars

C2_Witness ==
    /\ lifecycle = "Processing" /\ current.kind = "readResource" /\ received >= 2
    /\ written = received - 1 /\ cluster.replicas # ClusterInit.replicas

\* C3 (as claimed): once start-up has ended, each of the five request kinds has
\* a handler.
C3_AllKindsRouted ==
    boot \in {"ready", "failed"} => \A k \in Kinds : request_handlers[k] # "none"

\* C4: an error response to readResource or callTool carries InvalidRequest,
\* MethodNotFound or InternalError, and no other code.
C4_ThreeCodes ==
    /\ (current.kind \in {"readResource", "callTool"} /\ last.kind = "error")
          => last.code \in ProtocolCodes
    /\ (outcome.kind = "raise" /\ outcome.exc = "McpError") => outcome.code \in ProtocolCodes

C4_Witness ==
    /\ current.kind = "readResource" /\ last.kind = "error" /\ last.code = INVALID_REQUEST
    /\ ParseResourceUri(current.uri).ok

\* C5: in the low-level server (src/src/server.py, the code the claim cites) a
\* readResource whose URI parse_resource_uri rejects is answered with the
\* protocol error InvalidRequest; no resource handler ran and no backend call
\* was made for it.
C5_MalformedUriInvalidRequest ==
    (server = "lowlevel" /\ current.kind = "readResource"
     /\ ~ParseResourceUri(current.uri).ok)
    => /\ calls = <<>>
       /\ \A i \in 1..Len(invoked) : invoked[i] \notin ResourceHandlerNames
       /\ outcome # NoOutcome => (outcome.exc = "McpError" /\ outcome.code = INVALID_REQUEST)
       /\ Answered => (last.kind = "error" /\ last.code = INVALID_REQUEST)

C5_Witness ==
    /\ server = "lowlevel" /\ current.kind = "readResource"
    /\ ~ParseResourceUri(current.uri).ok /\ StartsWith(current.uri, KUBERNETES_SCHEME)
    /\ Answered /\ last.code = INVALID_REQUEST

\* C6 (as claimed): a readResource with a well-formed URI whose type has no
\* resource handler is answered with the protocol error MethodNotFound.
C6_UnknownTypeMethodNotFound ==
    (server = "lowlevel" /\ current.kind = "readResource" /\ Answered
     /\ ParseResourceUri(current.uri).ok
     /\ ParseResourceUri(current.uri).resource_type \notin ResourceHandlerTypes)
    => (last.kind = "error" /\ last.code = METHOD_NOT_FOUND)

\* a callTool names a tool nothing registered: no definition was appended, no
\* handler was given to register_tool, and _handle_tool_request has no branch
UnregisteredToolCall ==
    /\ server = "lowlevel" /\ current.kind = "callTool"
    /\ current.name \notin Range(tools) \cup tool_handlers \cup StatusTools

NegativeScale ==
    /\ current.kind = "callTool" /\ current.name = "scale_deployment"
    /\ current.arguments["replicas"].t = "integer" /\ current.arguments["replicas"].n < 0

ScaleCalls == {"kubectl.scale_deployment", "k8s_operations.scale_deployment"}

\* C8 (as claimed): scale_deployment with replicas below 0 fails with
\* InvalidRequest and the backend scale operation is not invoked.
C8_NegativeReplicasRejected ==
    NegativeScale
    => /\ \A i \in 1..Len(calls) : calls[i] \notin ScaleCalls
       /\ Answered => (last.kind = "error" /\ last.code = INVALID_REQUEST)

\* C9 (as claimed): a call of an operations tool that omits a required field or
\* gives a declared field a value of another type makes no backend call.
C9_SchemaViolationsRejected ==
    (server = "lowlevel" /\ current.kind = "callTool" /\ current.name \in OperationsTools
     /\ SchemaViolation(current.name, current.arguments))
    => calls = <<>>

\* a readResource that names one instance, of a type with a handler, which the
\* cluster does not hold
LowlevelMissingRead ==
    LET p == ParseResourceUri(current.uri)
    IN  /\ server = "lowlevel" /\ current.kind = "readResource"
        /\ p.ok /\ p.resource_type \in ResourceHandlerTypes /\ p.name # None
        /\ IF p.resource_type = Str("nodes") THEN SegValue(p.name).s \notin NodeNames
           ELSE ~(cluster.exists /\ p.namespace = Str("default") /\ p.name = Str("web"))

FastmcpMissingRead ==
    /\ server = "fastmcp" /\ current.kind = "readResource"
    /\ current.uri \in
         {<<K8S_SCHEME, "namespaces", Slash, "default", Slash, "deployments", Slash, "missing">>,
          <<K8S_SCHEME, "nodes", Slash, "missing">>}

BackendRaised == \E i \in 1..Len(calls) :
    calls[i] \in {"api.get_deployments:raised", "api.get_nodes:raised", "k8s_client.get:raised"}

C11_ToolExceptionsBecomeResults ==
    (server = "lowlevel" /\ current.kind = "callTool"
     /\ current.name \in OperationsTools \cup MonitoringTools \cup StatusTools
     /\ outcome # NoOutcome)
    => /\ outcome.kind = "return" /\ outcome.entries = 1
       /\ outcome.text = "error" => outcome.isError

\* ------------------------------------------- ResourceUriParser on its own
\* the strings given to parse_resource_uri: those of the read requests and
\* some with empty inner segments or several trailing slashes
UriInputs ==
    LowlevelUris
    \cup {<<KUBERNETES_SCHEME, "pods", Slash, Slash, "web">>,
          <<KUBERNETES_SCHEME, "pods", Slash, "default", Slash, "web", Slash, Slash>>,
          <<KUBERNETES_SCHEME, Slash, Slash, "pods">>}

\* the components given to build_resource_uri
SegNames == {Str("default"), Str("all"), Str("ALL"), Str("web"),
             <<"a", Slash, "b">>, <<"a", "%", "b">>}
TripleInputs ==
    {<<t, ns, n>> : t \in {Str("pods"), Str("nodes")},
                    ns \in SegNames \cup {None}, n \in SegNames \cup {None}}

InitUri ==
    /\ server = "lowlevel"
    /\ ServerNew
    /\ \/ uriIn \in UriInputs /\ tripleIn = NoTriple
       \/ uriIn = NoUri /\ tripleIn \in TripleInputs
    /\ parsed = ParseError /\ built = NoUri /\ stage = "input"
    /\ TcpIdle
    /\ CfgIdle

ParseUri ==
    /\ stage = "input" /\ uriIn # NoUri
    /\ parsed' = ParseResourceUri(uriIn)
    /\ stage' = "parsed"
    /\ UNCHANGED <<server, bootVars, loopVars, tcpVars, cfgVars, uriIn, tripleIn, built>>

BuildUri ==
    /\ stage = "input" /\ tripleIn # NoTriple
    /\ built' = BuildResourceUri(tripleIn[1], tripleIn[2], tripleIn[3])
    /\ stage' = "built"
    /\ UNCHANGED <<server, bootVars, loopVars, tcpVars, cfgVars, uriIn, tripleIn, parsed>>

ParseBuilt ==
    /\ stage = "built"
    /\ parsed' = ParseResourceUri(built)
    /\ stage' = "reparsed"
    /\ UNCHANGED <<server, bootVars, loopVars, tcpVars, cfgVars, uriIn, tripleIn, built>>

NextUri == ParseUri \/ BuildUri \/ ParseBuilt

SpecUri == InitUri /\ [][NextUri]_vars

RECURSIVE CountSlash(_)
CountSlash(s) ==
    IF s = <<>> THEN 0
    ELSE (IF Head(s) = Slash THEN 1 ELSE 0) + CountSlash(Tail(s))

\* the type segment is what stands between the scheme and the first "/"
ClaimedMalformed(uri) ==
    \/ ~StartsWith(uri, KUBERNETES_SCHEME)
    \/ LET path == RStrip(Tail(uri))
       IN  path = <<>> \/ Head(path) = Slash \/ CountSlash(path) > 2

\* C12 (as claimed): parse_resource_uri fails exactly when the scheme prefix is
\* missing, the type segment is empty, or more than three segments follow.
C12_FailsExactlyWhen ==
    stage = "parsed" => (~parsed.ok <=> ClaimedMalformed(uriIn))

TrimmedMalformed(uri) ==
    \/ ~StartsWith(uri, KUBERNETES_SCHEME)
    \/ LET path == Strip(Tail(uri))
       IN  path = <<>> \/ CountSlash(path) > 2

\* C12 (amended): parse_resource_uri fails exactly when the scheme prefix is
\* missing, or the path with every leading and trailing "/" removed is empty,
\* or that trimmed path has more than three "/"-separated segments; every other
\* string is accepted, a leading "/" and empty inner segments included.
C12_FailsExactlyWhenTrimmed ==
    stage = "parsed" => (~parsed.ok <=> TrimmedMalformed(uriIn))

C12_Witness ==
    /\ stage = "parsed" /\ ~parsed.ok /\ StartsWith(uriIn, KUBERNETES_SCHEME)
    /\ CountSlash(Strip(Tail(uriIn))) > 2

\* a uri of one of the four shapes: the scheme, then one to three non-empty
\* segments separated by single slashes
ShapeSegments(uri) == Split(Tail(uri))
FourShapes(uri) ==
    /\ StartsWith(uri, KUBERNETES_SCHEME)
    /\ Len(ShapeSegments(uri)) \in 1..3
    /\ \A i \in 1..Len(ShapeSegments(uri)) : ShapeSegments(uri)[i] # EmptyStr

\* the result the four shapes are given; alias tells which second segments
\* stand for "all"
ShapeResult(segs, alias) ==
    IF Len(segs) = 1 THEN Parsed(segs[1], None, None)
    ELSE IF Len(segs) = 2
    THEN IF segs[2] \in alias THEN Parsed(segs[1], None, None)
         ELSE Parsed(segs[1], segs[2], None)
    ELSE Parsed(segs[1], segs[2], segs[3])

\* C13 (as claimed): scheme://type gives (type, None, None), scheme://type/all
\* the same, scheme://type/namespace gives (type, namespace, None) and
\* scheme://type/namespace/name gives (type, namespace, name).
C13_FourShapes ==
    (stage = "parsed" /\ FourShapes(uriIn))
    => parsed = ShapeResult(ShapeSegments(uriIn), {Str("all")})

\* C13 (amended): the same mapping, where the second segment stands for "all"
\* in any letter case: scheme://type/ALL also gives (type, None, None), not
\* (type, "ALL", None).
C13_FourShapesAnyCase ==
    (stage = "parsed" /\ FourShapes(uriIn))
    => parsed = ShapeResult(ShapeSegments(uriIn), {Str("all"), Str("ALL")})

C13_Witness ==
    /\ stage = "parsed" /\ FourShapes(uriIn)
    /\ uriIn = <<KUBERNETES_SCHEME, "pods", Slash, "ALL">>
    /\ parsed.namespace = None

\* a component without "/" or "%"
Plain(seg) ==
    seg # None /\ seg # EmptyStr /\ \A i \in 1..Len(seg) : seg[i] \notin {Slash, "%"}

\* a triple build_resource_uri is meant for: a type, then a namespace and a
\* name that may be omitted, a name only together with a namespace
ValidTriple(t) ==
    /\ Plain(t[1])
    /\ t[2] = None \/ Plain(t[2])
    /\ t[3] = None \/ Plain(t[3])
    /\ t[3] # None => t[2] # None

\* C14 (as claimed): parse_resource_uri(build_resource_uri(type, namespace,
\* name)) is (type, namespace, name) for every valid triple, omitted
\* components staying None.
C14_RoundTrip ==
    (stage = "reparsed" /\ ValidTriple(tripleIn))
    => parsed = Parsed(tripleIn[1], tripleIn[2], tripleIn[3])

\* a namespace that reads "all" with no name after it
AllAlone(t) == t[2] # None /\ t[3] = None /\ Lower(t[2]) = Str("all")

\* C14 (amended): the round trip holds for every valid triple except a
\* namespace spelled "all" (in any letter case) with the name omitted, which
\* comes back as (type, None, None).
C14_RoundTripExceptAll ==
    (stage = "reparsed" /\ ValidTriple(tripleIn))
    => parsed = IF AllAlone(tripleIn) THEN Parsed(tripleIn[1], None, None)
                ELSE Parsed(tripleIn[1], tripleIn[2], tripleIn[3])

C14_Witness ==
    /\ stage = "reparsed" /\ tripleIn = <<Str("pods"), Str("default"), Str("web")>>
    /\ parsed = Parsed(Str("pods"), Str("default"), Str("web"))

\* a namespace and a name, one of them with a reserved character
ReservedTriple(t) ==
    /\ Plain(t[1]) /\ t[2] # None /\ t[3] # None
    /\ ~(Plain(t[2]) /\ Plain(t[3]))

\* C15 (as claimed): a namespace or name with a reserved character ("/", "%")
\* comes back unchanged from build_resource_uri followed by parse_resource_uri.
C15_ReservedRoundTrip ==
    (stage = "reparsed" /\ ReservedTriple(tripleIn))
    => parsed = Parsed(tripleIn[1], tripleIn[2], tripleIn[3])

\* the enumerations of list_resources that failed for the current request
FailedListings == {t \in {ListedTypes[i] : i \in 1..Len(ListedTypes)} :
                      \E i \in 1..Len(calls) : calls[i] = ListCall[t][2]}

RECURSIVE SumListed(_, _, _)
SumListed(types, failed, cl) ==
    IF types = {} THEN 0
    ELSE LET t == CHOOSE x \in types : TRUE
         IN  (IF t \in failed THEN 0 ELSE Cardinality(Listed(t, cl)))
             + SumListed(types \ {t}, failed, cl)

\* the listing holds the descriptors of every type whose enumeration did not fail
ListingKeepsOthers ==
    (server = "fastmcp" /\ current.kind = "listResources" /\ Answered)
    => /\ last.kind = "result"
       /\ last.entries = SumListed({ListedTypes[i] : i \in 1..Len(ListedTypes)},
                                   FailedListings, cluster)

\* the handler whose register_resources() does not raise is registered
RegistrationKeepsOthers ==
    (server = "lowlevel" /\ boot \in {"ready", "failed"})
    => \E i \in 1..Len(resources) : resources[i] = <<KUBERNETES_SCHEME, "deployments">>

\* C16 (as claimed): when the enumeration of one resource type raises, the
\* listing still succeeds and holds the descriptors of all the other types; and
\* a resource handler whose registration raises does not stop the registration
\* of the other handlers.
C16_PartialFailureKeepsOthers == ListingKeepsOthers /\ RegistrationKeepsOthers

\* ------------------------------------------------------- socket transport
\* KubernetesMcpServer.run in network mode: "async with tcp_server(...)" around
\* the dispatcher loop, and the tasks asyncio runs beside it.  One action is
\* the code a task runs between two awaits.
restVars == <<server, bootVars, loopVars, uriVars, cfgVars>>

InitTcp ==
    /\ server = "lowlevel"
    /\ ServerNew
    /\ UriIdle
    /\ tcpPc = "start"
    /\ waitsForClients \in BOOLEAN
    /\ TcpNew
    /\ CfgIdle

\* TcpServer.__aenter__ up to "await self.client_connected"
TcpAenter ==
    /\ tcpPc = "start"
    /\ listening' = TRUE
    /\ client_connected' = FALSE
    /\ tcpPc' = "awaiting_client"
    /\ UNCHANGED <<restVars, client_reader, client_writer, streams, conn, loopEnd,
                   waitsForClients, handled>>

\* serve_forever accepts a connection and creates the task of _handle_client
AcceptClient(c) ==
    /\ listening
    /\ conn[c].state = "none"
    /\ \A d \in Clients : d < c => conn[d].state # "none"
    /\ conn' = [conn EXCEPT ![c].state = "accepted"]
    /\ UNCHANGED <<restVars, tcpPc, listening, client_connected, client_reader,
                   client_writer, streams, loopEnd, waitsForClients, handled>>

\* the client closes its side of connection c
ClientEof(c) ==
    /\ conn[c].state \in {"accepted", "serving"}
    /\ ~conn[c].eof
    /\ conn' = [conn EXCEPT ![c].eof = TRUE]
    /\ UNCHANGED <<restVars, tcpPc, listening, client_connected, client_reader,
                   client_writer, streams, loopEnd, waitsForClients, handled>>

\* _handle_client that awaits between storing the reader and storing the writer
HandleClientStartReaderFirst(c) ==
    /\ conn[c].state = "accepted"
    /\ client_reader' = c
    /\ client_connected' = TRUE
    /\ conn' = [conn EXCEPT ![c].state = "serving"]
    /\ UNCHANGED <<restVars, tcpPc, listening, client_writer, streams, loopEnd,
                   waitsForClients, handled>>

\* _handle_client up to its first await: store the reader and the writer, set
\* the future if it is not done
HandleClientStart(c) ==
    /\ conn[c].state = "accepted"
    /\ client_reader' = c
    /\ client_writer' = c
    /\ client_connected' = TRUE
    /\ conn' = [conn EXCEPT ![c].state = "serving"]
    /\ UNCHANGED <<restVars, tcpPc, listening, streams, loopEnd, waitsForClients, handled>>

\* HandleClientEof whose finally clause does not close the writer
HandleClientEofNoClose(c) ==
    /\ conn[c].state = "serving"
    /\ conn[c].eof
    /\ conn' = [conn EXCEPT ![c].state = "finished"]
    /\ UNCHANGED <<restVars, tcpPc, listening, client_connected, client_reader,
                   client_writer, streams, loopEnd, waitsForClients, handled>>

\* _handle_client: reader.at_eof() ends the while loop, finally: writer.close()
HandleClientEof(c) ==
    /\ conn[c].state = "serving"
    /\ conn[c].eof
    /\ conn' = [conn EXCEPT ![c].state = "finished", ![c].closes = @ + 1]
    /\ UNCHANGED <<restVars, tcpPc, listening, client_connected, client_reader,
                   client_writer, streams, loopEnd, waitsForClients, handled>>

\* __aenter__ after the future is done: return the stream pair
TcpAenterReturn ==
    /\ tcpPc = "awaiting_client"
    /\ client_connected
    /\ streams' = <<client_reader, client_writer>>
    /\ tcpPc' = "running"
    /\ UNCHANGED <<restVars, listening, client_connected, client_reader, client_writer,
                   conn, loopEnd, waitsForClients, handled>>

\* the dispatcher reads one request from the pair, handles it and answers
TcpServe ==
    /\ tcpPc = "running"
    /\ ~conn[streams[1]].eof
    /\ handled < MaxRequests
    /\ handled' = handled + 1
    /\ UNCHANGED <<restVars, tcpPc, listening, client_connected, client_reader,
                   client_writer, streams, conn, loopEnd, waitsForClients>>

\* the dispatcher loop ends (end of input, an exception, an interrupt) and
\* __aexit__ runs up to its await: self.server.close()
TcpLoopEnds(how) ==
    /\ tcpPc = "running"
    /\ how = "eof" => conn[streams[1]].eof
    /\ loopEnd' = how
    /\ listening' = FALSE
    /\ tcpPc' = "wait_closed"
    /\ UNCHANGED <<restVars, client_connected, client_reader, client_writer, streams,
                   conn, waitsForClients, handled>>

\* __aexit__: "await self.server.wait_closed()" returns
TcpWaitClosed ==
    /\ tcpPc = "wait_closed"
    /\ waitsForClients => \A c \in Clients : conn[c].state \in {"none", "finished"}
    /\ tcpPc' = "exited"
    /\ UNCHANGED <<restVars, listening, client_connected, client_reader, client_writer,
                   streams, conn, loopEnd, waitsForClients, handled>>

\* an interrupt or a cancellation reaches __aenter__ at "await
\* self.client_connected": the exception leaves "async with" without __aexit__
TcpAenterCancelled ==
    /\ tcpPc = "awaiting_client"
    /\ tcpPc' = "cancelled"
    /\ UNCHANGED <<restVars, listening, client_connected, client_reader, client_writer,
                   streams, conn, loopEnd, waitsForClients, handled>>

\* a teardown in which nothing closes the listening server
TcpTeardownKeepsListening ==
    /\ tcpPc \in {"exited", "cancelled"}
    /\ conn' = [c \in Clients |->
                  IF conn[c].state = "serving"
                  THEN [conn[c] EXCEPT !.state = "finished", !.closes = @ + 1]
                  ELSE IF conn[c].state = "accepted"
                  THEN [conn[c] EXCEPT !.state = "cancelled"]
                  ELSE conn[c]]
    /\ tcpPc' = "done"
    /\ UNCHANGED <<restVars, listening, client_connected, client_reader, client_writer,
                   streams, loopEnd, waitsForClients, handled>>

\* asyncio.run(server.run(config)) ends and main returns: the tasks still
\* pending are cancelled; a _handle_client in its loop runs its finally, one not
\* yet started runs nothing; the cancelled serve_forever closes its server, and
\* the process that ends holds no socket
TcpTeardown ==
    /\ tcpPc \in {"exited", "cancelled"}
    /\ conn' = [c \in Clients |->
                  IF conn[c].state = "serving"
                  THEN [conn[c] EXCEPT !.state = "finished", !.closes = @ + 1]
                  ELSE IF conn[c].state = "accepted"
                  THEN [conn[c] EXCEPT !.state = "cancelled"]
                  ELSE conn[c]]
    /\ listening' = FALSE
    /\ tcpPc' = "done"
    /\ UNCHANGED <<restVars, client_connected, client_reader, client_writer,
                   streams, loopEnd, waitsForClients, handled>>

NextTcp ==
    \/ TcpAenter
    \/ \E c \in Clients : AcceptClient(c)
    \/ \E c \in Clients : ClientEof(c)
    \/ \E c \in Clients : HandleClientStart(c)
    \/ \E c \in Clients : HandleClientEof(c)
    \/ TcpAenterReturn
    \/ TcpAenterCancelled
    \/ TcpServe
    \/ \E how \in {"eof", "exception", "interrupt"} : TcpLoopEnds(how)
    \/ TcpWaitClosed
    \/ TcpTeardown

SpecTcp == InitTcp /\ [][NextTcp]_vars

\* The event loop runs every task that can run; the clients and the failures
\* of the dispatcher owe nothing.
SpecTcpLive ==
    /\ SpecTcp
    /\ WF_vars(TcpAenter)
    /\ WF_vars(TcpAenterReturn)
    /\ \A c \in Clients : WF_vars(HandleClientStart(c))
    /\ \A c \in Clients : WF_vars(HandleClientEof(c))
    /\ WF_vars(TcpLoopEnds("eof"))
    /\ WF_vars(TcpWaitClosed)
    /\ WF_vars(TcpTeardown)

\* the connections the transport has accepted
Accepted == {c \in Clients : conn[c].state # "none"}
\* the pair has been handed to the dispatcher
Handed ==
    \/ tcpPc \in {"running", "wait_closed", "exited"}
    \/ tcpPc = "done" /\ loopEnd # "none"
\* writer.close() calls on the connection whose pair the dispatcher holds
WriterCloses == IF streams[2] \in Clients THEN conn[streams[2]].closes ELSE 0

\* C17: once the dispatcher loop has ended on end of input, no further request
\* is handled on the connection, and the connection's writer is closed exactly
\* once: never twice, and once by the time the event loop has finished, which
\* it comes to.
C17_ClosedReleasesOnce ==
    /\ [][loopEnd # "none" => handled' = handled]_vars
    /\ [](\A c \in Clients : conn[c].closes <= 1)
    /\ []((loopEnd = "eof" /\ tcpPc = "done") => WriterCloses = 1)
    /\ (loopEnd = "eof") ~> (WriterCloses = 1)

C17_Witness ==
    /\ loopEnd = "eof" /\ tcpPc = "done" /\ handled > 0
    /\ WriterCloses = 1

\* C18 (as claimed): whichever way the dispatcher loop ends, in the end the
\* listening socket is closed and the writer of the connection handed to the
\* dispatcher is closed.
C18_ReleaseCompletes ==
    (loopEnd # "none") ~> (~listening /\ WriterCloses >= 1)

\* C19 (as claimed): the transport accepts one connection only, stops listening
\* once it has a client, and its client reader/writer stay those of the pair
\* handed to the dispatcher.
C19_OneConnectionOnly ==
    /\ Cardinality(Accepted) <= 1
    /\ Accepted # {} => ~listening
    /\ Handed => <<client_reader, client_writer>> = streams

\* C20: the pair handed to the dispatcher is whole: both streams are set and
\* both are those of one connection, whose _handle_client stored them.
C20_StreamPairWhole ==
    Handed => /\ streams[1] \in Clients
              /\ streams[2] = streams[1]
              /\ conn[streams[1]].state \in {"serving", "finished"}

C20_Witness ==
    /\ tcpPc = "running" /\ streams = <<MaxClients, MaxClients>>
    /\ \A c \in Clients : conn[c].state = "serving"

\* ------------------------------------------------- failures and the loop
\* a handler ended in an exception or in a result marked is_error
FailedOutcome(o) == o.kind = "raise" \/ (o.kind = "return" /\ o.isError)
\* the response of a failed request
FailedResponse(r) == r.kind = "error" \/ (r.kind = "result" /\ r.isError)

\* C21: a request that fails (malformed URI, unknown type or tool, instance not
\* found, backend exception) is answered and leaves the dispatcher in Awaiting
\* with the registries as they were; the failure never closes the connection,
\* and the next request taken from the same connection is put in Processing
\* and has a handler run for it like any other.
C21_FailureKeepsConnection ==
    /\ [][ /\ (lifecycle = "Processing" /\ FailedOutcome(outcome))
                => /\ lifecycle' = "Awaiting"
                   /\ FailedResponse(last')
                   /\ UNCHANGED bootVars
           /\ (lifecycle = "Awaiting" /\ FailedResponse(last) /\ received' # received)
                => /\ lifecycle' = "Processing"
                   /\ outcome' = NoOutcome
                   /\ cluster' = cluster ]_vars
    /\ []((lifecycle = "Awaiting" /\ FailedResponse(last) /\ received < MaxRequests)
            => ENABLED Receive)
    /\ []((lifecycle = "Processing" /\ outcome = NoOutcome /\ received >= 2)
            => (current \in Requests(server) /\ Dispatch(server, current, cluster) # {}))

C21_Witness ==
    /\ lifecycle = "Awaiting" /\ FailedResponse(last) /\ written = received
    /\ received < MaxRequests /\ ENABLED Receive
    /\ current.kind = "readResource" /\ last.code = INVALID_REQUEST

\* C22 (as claimed): an interrupt delivered while the server runs stops the
\* serving loop for good (no request is handled afterwards) and the process
\* terminates.
C22_InterruptTerminates ==
    /\ [][loopEnd = "interrupt" => handled' = handled]_vars
    /\ (loopEnd = "interrupt") ~> (tcpPc = "done")

\* the transport was interrupted while __aenter__ waited for its first client
AenterInterrupted == tcpPc = "cancelled" \/ (tcpPc = "done" /\ loopEnd = "none")

registryVars == <<request_handlers, tools, tool_handlers, resources, resource_templates>>
StartupOver == boot \in {"ready", "failed"}

\* C23: the registries are written during start-up only: once start-up is over,
\* and so after any request has been received or served, no step (whatever the
\* kind of the request and whether it succeeds or fails) changes the request
\* handlers, the tool definitions, the tool handlers, the resources or the
\* resource templates.
C23_RegistriesFrozen ==
    [][ /\ StartupOver => (UNCHANGED registryVars /\ StartupOver')
        /\ (received >= 1 \/ lifecycle # "Idle") => StartupOver ]_vars

C23_Witness ==
    /\ server = "lowlevel" /\ written = MaxRequests /\ lifecycle = "Awaiting"
    /\ current.kind = "callTool" /\ last.kind = "result"
    /\ tools = OperationsToolOrder \o MonitoringToolOrder
    /\ resources = <<>> /\ resource_templates = <<>>

\* ------------------------------------------------------------- no retries
\* the backend calls that change the cluster
MutatingCalls == {"kubectl.scale_deployment", "kubectl.restart_deployment",
                  "kubectl.create_namespace", "kubectl.delete_resource",
                  "kubectl.exec_command_in_pod", "k8s_operations.scale_deployment"}

RECURSIVE CountMutating(_)
CountMutating(cs) ==
    IF cs = <<>> THEN 0
    ELSE (IF Head(cs) \in MutatingCalls THEN 1 ELSE 0) + CountMutating(Tail(cs))

\* C24: nothing is retried: for one callTool request the mutating backend
\* operation is invoked at most once, also when the invocation fails, and no
\* handler runs twice for the request.
C24_NoRetry ==
    /\ CountMutating(calls) <= 1
    /\ \A i, j \in 1..Len(invoked) : invoked[i] = invoked[j] => i = j

C24_Witness ==
    /\ current.kind = "callTool" /\ current.name = "delete_resource"
    /\ lifecycle = "Awaiting" /\ last.kind = "result" /\ last.isError
    /\ calls = <<"kubectl.delete_resource">>

\* -------------------------------------------------- ResourceURI invariant
\* C25 (as claimed): every successful parse_resource_uri returns a type that is
\* not empty and, whenever it returns a name, a namespace that is neither None
\* nor empty.
C25_ParsedInvariant ==
    (stage \in {"parsed", "reparsed"} /\ parsed.ok)
    => /\ parsed.resource_type \notin {None, EmptyStr}
       /\ parsed.name # None => parsed.namespace \notin {None, EmptyStr}

\* ------------------------------------------------------------ tool names
\* C26: once start-up registration is over, no two tool definitions of the tool
\* registry have the same name.
C26_ToolNamesUnique ==
    StartupOver => \A i, j \in 1..Len(tools) : tools[i] = tools[j] => i = j

C26_Witness ==
    /\ server = "lowlevel" /\ StartupOver
    /\ Len(tools) = Len(OperationsToolOrder) + Len(MonitoringToolOrder)
    /\ Range(tools) = OperationsTools \cup MonitoringTools

\* the tool names a client may send
ToolNames == OperationsTools \cup MonitoringTools \cup StatusTools \cup {"bogus_tool"}

\* a callTool request for the name can end in a handler of that tool, and not
\* only in the router's answer for an unknown tool
RoutedToTool(name) ==
    \E r \in Dispatch("lowlevel", Request("callTool", <<>>, name, NoArguments), cluster) :
        r.invoked # <<"_handle_tool_request">>

\* C27 (as claimed): the tool names advertised by registration are exactly the
\* tool names a callTool request routes to a tool handler.
C27_AdvertisedEqualsCallable ==
    (server = "lowlevel" /\ StartupOver)
    => {n \in ToolNames : RoutedToTool(n)} = Range(tools)

\* ------------------------------------------------------ resource templates
\* NodeResourceHandler._handle_list_resource_templates
NodeTemplates == {<<KUBERNETES_SCHEME, "nodes", Slash, "{name}">>}
\* BaseResourceHandler.get_resource_templates("deployments", ...)
DeploymentTemplates ==
    {RegisterResources("deployments").templates[i] :
        i \in 1..Len(RegisterResources("deployments").templates)}
HandlerTemplates == NodeTemplates \cup DeploymentTemplates

\* the template describes one instance
SpecificInstance(tmpl) == \E i \in 1..Len(tmpl) : tmpl[i] = "{name}"

\* the URI a client gets by putting its values in the place of the parameters
Instantiate(tmpl, namespace, name) ==
    [i \in 1..Len(tmpl) |-> CASE tmpl[i] = "{namespace}" -> namespace
                              [] tmpl[i] = "{name}" -> name
                              [] OTHER -> tmpl[i]]

TemplateValues == {"default", "web", "node1", "missing"}

\* current is the read of an instance of a "specific instance" template
ReadsSpecificInstance ==
    /\ server = "lowlevel" /\ current.kind = "readResource"
    /\ \E tmpl \in HandlerTemplates : \E ns, n \in TemplateValues :
          SpecificInstance(tmpl) /\ current.uri = Instantiate(tmpl, ns, n)

\* C28 (as claimed): a URI made from a handler's "specific instance" template,
\* read through that handler, is answered with that one instance or with a
\* not-found failure, never with the list of all instances.
C28_TemplateAddressesInstance ==
    (ReadsSpecificInstance /\ outcome # NoOutcome)
    => (outcome.kind = "raise" \/ outcome.text = "instance")

\* ------------------------------------------------------------ utils/config
\* main of src/server.py: load_config, then the command-line overrides written
\* into the sections get_server_config and get_kubernetes_config return.
Keep == "<keep>"
Scalar == "<scalar>"

\* the sections a configuration file can hold: absent, a mapping of some of the
\* keys, or a value that is no mapping
Section(t, d) == [t |-> t, d |-> d]
ServerSections ==
    {Section("absent", <<>>), Section("scalar", <<>>)}
    \cup {Section("dict", [bind_ip |-> ip, bind_port |-> port, mode |-> mode]) :
            ip \in {Keep, "0.0.0.0"}, port \in {Keep, "9000"}, mode \in {Keep, "stdio"}}
KubernetesSections ==
    {Section("absent", <<>>), Section("scalar", <<>>)}
    \cup {Section("dict", [kubeconfig_path |-> path]) : path \in {Keep, "/kube"}}
FileConfigs == [server : ServerSections, kubernetes : KubernetesSections]
\* config_path is None, or the file is missing or empty
NoFile == [server |-> Section("absent", <<>>), kubernetes |-> Section("absent", <<>>)]

\* _update_config_recursive on a nested dict whose new values are no mappings:
\* base_config[key] = value for every key of new_config
UpdateDict(base, new) == [k \in DOMAIN base |-> IF new[k] = Keep THEN base[k] ELSE new[k]]

\* load_config(config_path): config = DEFAULT_CONFIG.copy(), a new outer dict
\* that holds the same section objects; then _update_config_recursive(config,
\* file_config) writes into those objects, or replaces a section that is given
\* as a value that is no mapping
LoadConfig(path, file) ==
    /\ path = "none" => file = NoFile
    /\ LET copy == DEFAULT_CONFIG
       IN  /\ config' = [k \in DOMAIN copy |->
                            IF file[k].t = "scalar" THEN Scalar ELSE copy[k]]
           /\ dicts' = [id \in DOMAIN dicts |->
                           IF \E k \in DOMAIN copy : copy[k] = id /\ file[k].t = "dict"
                           THEN UpdateDict(dicts[id],
                                           file[CHOOSE k \in DOMAIN copy : copy[k] = id].d)
                           ELSE dicts[id]]
    /\ loadedFrom' = path
    /\ UNCHANGED <<server, bootVars, loopVars, uriVars, tcpVars>>

\* main: server_config = get_server_config(config); server_config[key] = value
OverrideServer(key, value) ==
    /\ config["server"] \in DOMAIN dicts
    /\ dicts' = [dicts EXCEPT ![config["server"]][key] = value]
    /\ UNCHANGED <<server, bootVars, loopVars, uriVars, tcpVars, config, loadedFrom>>

\* main: kubernetes_config = get_kubernetes_config(config);
\* kubernetes_config["kubeconfig_path"] = args.kubeconfig
OverrideKubernetes(value) ==
    /\ config["kubernetes"] \in DOMAIN dicts
    /\ dicts' = [dicts EXCEPT ![config["kubernetes"]]["kubeconfig_path"] = value]
    /\ UNCHANGED <<server, bootVars, loopVars, uriVars, tcpVars, config, loadedFrom>>

InitConfig ==
    /\ server = "lowlevel"
    /\ ServerNew
    /\ UriIdle
    /\ TcpIdle
    /\ CfgIdle

NextConfig ==
    \/ \E path \in {"none", "file"} : \E file \in FileConfigs : LoadConfig(path, file)
    \/ OverrideServer("bind_ip", "127.0.0.1")
    \/ OverrideServer("bind_port", "9090")
    \/ OverrideServer("mode", "stdio")
    \/ OverrideKubernetes("/cli")

SpecConfig == InitConfig /\ [][NextConfig]_vars

\* the values a dict returned by load_config holds, section by section
ConfigValue ==
    [k \in DOMAIN config |-> IF config[k] \in DOMAIN dicts THEN dicts[config[k]] ELSE config[k]]
OriginalDefaults == [k \in DOMAIN DEFAULT_CONFIG |-> DefaultDicts[DEFAULT_CONFIG[k]]]

\* C30 (as claimed): load_config and the command-line overrides never modify
\* DEFAULT_CONFIG, and load_config(None) returns the original default values
\* after any sequence of loads and overrides.
C30_DefaultsUntouched ==
    /\ dicts = DefaultDicts
    /\ loadedFrom = "none" => ConfigValue = OriginalDefaults

====
